---- MODULE Spec2Model ----
(***************************************************************************)
(* Process-Jinn: the planning assistant's application state (App.tsx),     *)
(* the response normalizers of the model service (geminiService) and the   *)
(* UI gating of StepList / ResourcePanel, as a state machine.              *)
(*                                                                         *)
(* JavaScript objects are TLA+ functions whose DOMAIN is the set of keys   *)
(* the object has: a key that is undefined in the object is absent from    *)
(* the DOMAIN.  The spread {...a, ...b} is  b @@ a.                        *)
(* JavaScript strings that the code transforms (goal text, resource        *)
(* mentions) are sequences of one-character strings.                       *)
(* An asynchronous handler is two atomic steps: the part before its await  *)
(* (which captures the values of `state` of the render it was called in)   *)
(* and the continuation, run when the request resolves or rejects.         *)
(***************************************************************************)
EXTENDS Integers, Sequences, FiniteSets, TLC

VARIABLES
  state,     \* GoalState, App.tsx useState
  pending,   \* requests in flight, each with the values its closure captured
  nreq,      \* number of requests issued so far
  now,       \* the clock: the latest value Date.now() can have returned, in ms
  nres,      \* number of resource ids minted (the Math.random() suffix is fresh)
  last       \* the handler or continuation that ran last

vars == <<state, pending, nreq, now, nres, last>>

----------------------------------------------------------------------------
(* Bounds *)

\* requests issued in one behaviour
MaxRequests == 3
\* requests issued in one session of the detail screen
MaxDetailRequests == 2
\* milliseconds that pass beyond the one every request takes
MaxTicks == 1

----------------------------------------------------------------------------
(* Strings *)

\* /[\[\]]/g
IsBracket(c) == c \in {"[", "]"}

StripBrackets(s) == SelectSeq(s, LAMBDA c : ~IsBracket(c))

RECURSIVE TrimStart(_)
TrimStart(s) == IF s # <<>> /\ Head(s) = " " THEN TrimStart(Tail(s)) ELSE s

RECURSIVE TrimEnd(_)
TrimEnd(s) ==
  IF s # <<>> /\ s[Len(s)] = " " THEN TrimEnd(SubSeq(s, 1, Len(s) - 1)) ELSE s

\* no trim at all: the text as it was typed
Untrimmed(s) == s

\* String.prototype.trim
Trim(s) == TrimEnd(TrimStart(s))

LowerChar(c) ==
  CASE c = "H" -> "h"
    [] c = "V" -> "v"
    [] OTHER -> c

\* String.prototype.toLowerCase
toLowerCase(s) == [i \in 1..Len(s) |-> LowerChar(s[i])]

\* resName.replace(/[\[\]]/g, '').trim()
cleanNameOf(resName) == Trim(StripBrackets(resName))

----------------------------------------------------------------------------
(* Inputs: what the user types and what the model service answers *)

Languages == {"en", "zh"}

OtherLanguage(l) == IF l = "en" THEN "zh" ELSE "en"

GoalTexts == { <<>>, <<" ">>, <<"g">> }
DetailTexts == { <<>>, <<"e">> }

MentionH == <<"[", "H", "]">>
Mentionh == <<" ", "h", " ">>
MentionV == <<"[", "V", "]">>
Mentionv == <<"v">>
MentionEmpty == <<"[", " ", "]">>

\* the bracketed texts of the rendered instructions the user can click
ClickNames == { <<"[", "h", "]">>, MentionV }

RawStrategy == [title |-> "title", description |-> "description"]

RawStrategyLists == { <<>>, <<RawStrategy>>, <<RawStrategy, RawStrategy>> }

RawPlans ==
  { <<>>,
    << [type |-> "single", instruction |-> "text",
        resources |-> <<MentionH, Mentionh>>] >>,
    << [type |-> "parallel",
        parallelSteps |-> << [instruction |-> "text", resources |-> <<MentionH>>],
                             [instruction |-> "text"] >>] >> }

RawSubStepLists ==
  { <<>>,
    << [instruction |-> "text", resources |-> <<Mentionv>>] >>,
    << [instruction |-> "text", resources |-> <<MentionEmpty>>],
       [instruction |-> "text"] >> }

RawResourceStepLists ==
  { <<>>, << [instruction |-> "text", resources |-> <<>>] >> }

\* response.text: undefined, not JSON, or the JSON text of a payload
Missing == [text |-> "undefined"]
Unparseable == [text |-> "garbage"]
Json(payload) == [text |-> "json", value |-> payload]

Responses(payloads) == {Missing, Unparseable} \cup { Json(p) : p \in payloads }

\* JSON.parse(response.text || "[]"): the value, or a thrown SyntaxError
Throws(response) == response.text = "garbage"

JSONparse(response) == IF response.text = "json" THEN response.value ELSE <<>>

----------------------------------------------------------------------------
(* geminiService: the normalizers *)

Has(o, k) == k \in DOMAIN o

\* a map that tags the strategies with a plan-language at once
NormalizeStrategiesTagged(raw, t) ==
  [i \in 1..Len(raw) |->
     [id |-> <<"strategy", t, i - 1>>,
      title |-> raw[i].title,
      description |-> raw[i].description,
      plan |-> <<>>,
      planLanguage |-> "en"]]

\* generateStrategies, the map over rawStrategies
NormalizeStrategies(raw, t) ==
  [i \in 1..Len(raw) |->
     [id |-> <<"strategy", t, i - 1>>,
      title |-> raw[i].title,
      description |-> raw[i].description,
      plan |-> <<>>]]

\* x || fallback for a string property that may be missing or empty
OrElse(o, k, fallback) == IF Has(o, k) /\ o[k] # "" THEN o[k] ELSE fallback

\* x || [] for an array property that may be missing
OrEmpty(o, k) == IF Has(o, k) THEN o[k] ELSE <<>>

\* a property copied as it is: the key is missing when the raw key is
Copied(o, k) == IF Has(o, k) THEN (k :> o[k]) ELSE <<>>

NormalizeParallelStep(ps, t, itemIdx, pIdx) ==
  Copied(ps, "instruction") @@
  [id |-> <<"step", t, itemIdx, pIdx>>,
   resources |-> OrEmpty(ps, "resources"),
   subSteps |-> <<>>,
   isExpanded |-> FALSE]

NormalizePlanItem(item, t, itemIdx) ==
  IF Has(item, "type") /\ item.type = "parallel" /\ Has(item, "parallelSteps")
  THEN [type |-> "parallel",
        group |-> [id |-> <<"group", t, itemIdx>>,
                   steps |-> [p \in 1..Len(item.parallelSteps) |->
                                NormalizeParallelStep(item.parallelSteps[p], t,
                                                      itemIdx, p - 1)]]]
  ELSE [type |-> "single",
        step |-> [id |-> <<"step", t, itemIdx>>,
                  instruction |-> OrElse(item, "instruction", "Do this step"),
                  resources |-> OrEmpty(item, "resources"),
                  subSteps |-> <<>>,
                  isExpanded |-> FALSE]]

\* generateStrategyPlan, the map over rawPlan
NormalizePlan(raw, t) == [i \in 1..Len(raw) |-> NormalizePlanItem(raw[i], t, i - 1)]

\* expandStep and generateResourcePlan, the map over rawSteps
NormalizeSteps(raw, prefix, t) ==
  [i \in 1..Len(raw) |->
     Copied(raw[i], "instruction") @@
     [id |-> <<prefix, t, i - 1>>,
      resources |-> OrEmpty(raw[i], "resources")]]

\* what a call of a service function ends with: a thrown exception (the
\* promise rejects) or a returned value
Thrown == [threw |-> TRUE]

Returned(value) == [threw |-> FALSE, value |-> value]

\* generateStrategies, from the response on; t is what Date.now() returns
generateStrategies(response, t) ==
  IF Throws(response) THEN Thrown
  ELSE Returned(NormalizeStrategies(JSONparse(response), t))

\* generateStrategyPlan, from the response on
generateStrategyPlan(response, t) ==
  IF Throws(response) THEN Thrown
  ELSE Returned(NormalizePlan(JSONparse(response), t))

\* expandStep, from the response on
expandStep(response, t) ==
  IF Throws(response) THEN Thrown
  ELSE Returned(NormalizeSteps(JSONparse(response), "substep", t))

\* generateResourcePlan, from the response on
generateResourcePlan(response, t) ==
  IF Throws(response) THEN Thrown
  ELSE Returned(NormalizeSteps(JSONparse(response), "res-step", t))

----------------------------------------------------------------------------
(* App.tsx: helpers over the state *)

Null == <<>>

\* t.errorGeneric, the text in the language of the render the handler was called in
ErrorGeneric(lang) == <<"errorGeneric", lang>>

\* Array.prototype.find: the first of the indexes that satisfy the test, or 0
First(hits) == IF hits = {} THEN 0 ELSE CHOOSE i \in hits : \A j \in hits : i <= j

\* seq.find(x => x.id === id)
FindById(seq, id) == First({ i \in 1..Len(seq) : seq[i].id = id })

\* state.strategies.find(s => s.id === state.selectedStrategyId)
ActiveIndex(st) == FindById(st.strategies, st.selectedStrategyId)

\* state.resources.find(r => r.id === state.selectedResourceId)
SelectedResourceIndex(st) == FindById(st.resources, st.selectedResourceId)

RECURSIVE Concat(_)
Concat(seqs) == IF seqs = <<>> THEN <<>> ELSE Head(seqs) \o Concat(Tail(seqs))

\* the Steps of a plan item: item.step, or item.group.steps
ItemSteps(item) == IF item.type = "single" THEN <<item.step>> ELSE item.group.steps

\* the order in which handleSelectStrategy's plan.forEach visits the mentions
PlanMentions(plan) ==
  Concat([i \in 1..Len(plan) |->
            Concat([j \in 1..Len(ItemSteps(plan[i])) |->
                      ItemSteps(plan[i])[j].resources])])

\* the mentions of the sub-steps, in the order handleExpandStep's forEach visits them
StepMentions(steps) == Concat([i \in 1..Len(steps) |-> steps[i].resources])

NewResource(k, name, lang) ==
  [id |-> <<"res", k>>, name |-> name, isExpanded |-> FALSE, language |-> lang]

\* an addResource whose seen set holds the names as they are spelled
RECURSIVE addResourceCaseSensitive(_, _, _, _, _)
addResourceCaseSensitive(mentions, seenResources, newResources, k, lang) ==
  IF mentions = <<>> THEN newResources
  ELSE LET cleanName == cleanNameOf(Head(mentions))
       IN IF cleanName # <<>> /\ cleanName \notin seenResources
          THEN addResourceCaseSensitive(Tail(mentions), seenResources \cup {cleanName},
                                        Append(newResources,
                                               NewResource(k, cleanName, lang)),
                                        k + 1, lang)
          ELSE addResourceCaseSensitive(Tail(mentions), seenResources, newResources,
                                        k, lang)

\* handleSelectStrategy: addResource over the mentions, from newResources = [],
\* seenResources = new Set()
RECURSIVE addResource(_, _, _, _, _)
addResource(mentions, seenResources, newResources, k, lang) ==
  IF mentions = <<>> THEN newResources
  ELSE LET cleanName == cleanNameOf(Head(mentions))
           lower == toLowerCase(cleanName)
       IN IF cleanName # <<>> /\ lower \notin seenResources
          THEN addResource(Tail(mentions), seenResources \cup {lower},
                           Append(newResources, NewResource(k, cleanName, lang)),
                           k + 1, lang)
          ELSE addResource(Tail(mentions), seenResources, newResources, k, lang)

\* handleExpandStep: the loop over the sub-steps' mentions, from
\* currentResourceNames = the lower-cased names of the captured state.resources
RECURSIVE addExpandResource(_, _, _, _, _)
addExpandResource(mentions, currentResourceNames, newResources, k, lang) ==
  IF mentions = <<>> THEN newResources
  ELSE LET cleanName == cleanNameOf(Head(mentions))
           lower == toLowerCase(cleanName)
       IN IF lower \notin currentResourceNames
          THEN addExpandResource(Tail(mentions), currentResourceNames \cup {lower},
                                 Append(newResources, NewResource(k, cleanName, lang)),
                                 k + 1, lang)
          ELSE addExpandResource(Tail(mentions), currentResourceNames, newResources,
                                 k, lang)

\* a processSteps that does not descend into the sub-steps
processStepsFlat(steps, stepId, updates) ==
  [i \in 1..Len(steps) |->
     IF steps[i].id = stepId THEN updates @@ steps[i] ELSE steps[i]]

\* the merge of a patch that adds its sub-steps to the ones the Step has
MergeAppending(step, updates) ==
  IF Has(updates, "subSteps") /\ Has(step, "subSteps")
  THEN [subSteps |-> step.subSteps \o updates.subSteps] @@ updates @@ step
  ELSE updates @@ step

\* a processSteps whose merge appends the sub-steps of the patch
RECURSIVE processStepsAppending(_, _, _)
processStepsAppending(steps, stepId, updates) ==
  [i \in 1..Len(steps) |->
     LET step == steps[i]
     IN IF step.id = stepId THEN MergeAppending(step, updates)
        ELSE IF Has(step, "subSteps")
             THEN [step EXCEPT !.subSteps = processStepsAppending(step.subSteps, stepId,
                                                                  updates)]
             ELSE step]

\* updateStepInState: processSteps
RECURSIVE processSteps(_, _, _)
processSteps(steps, stepId, updates) ==
  [i \in 1..Len(steps) |->
     LET step == steps[i]
     IN IF step.id = stepId THEN updates @@ step
        ELSE IF Has(step, "subSteps")
             THEN [step EXCEPT !.subSteps = processSteps(step.subSteps, stepId, updates)]
             ELSE step]

\* a map over strat.plan that also matches the identity of a parallel group
processItemGroup(item, stepId, updates) ==
  IF item.type = "single"
  THEN IF item.step.id = stepId
       THEN [item EXCEPT !.step = updates @@ item.step]
       ELSE IF Has(item.step, "subSteps")
            THEN [item EXCEPT !.step.subSteps =
                                 processSteps(item.step.subSteps, stepId, updates)]
            ELSE item
  ELSE IF item.group.id = stepId
       THEN [item EXCEPT !.group = updates @@ item.group]
       ELSE [item EXCEPT !.group.steps = processSteps(item.group.steps, stepId, updates)]

\* updateStepInState: the map over strat.plan
processItem(item, stepId, updates) ==
  IF item.type = "single"
  THEN IF item.step.id = stepId
       THEN [item EXCEPT !.step = updates @@ item.step]
       ELSE IF Has(item.step, "subSteps")
            THEN [item EXCEPT !.step.subSteps =
                                 processSteps(item.step.subSteps, stepId, updates)]
            ELSE item
  ELSE [item EXCEPT !.group.steps = processSteps(item.group.steps, stepId, updates)]

processPlan(plan, stepId, updates) ==
  [i \in 1..Len(plan) |-> processItem(plan[i], stepId, updates)]

updateStepInState(prev, stepId, updates) ==
  [prev EXCEPT !.strategies =
     [s \in 1..Len(prev.strategies) |->
        IF ~Has(prev.strategies[s], "plan") THEN prev.strategies[s]
        ELSE [prev.strategies[s] EXCEPT !.plan = processPlan(@, stepId, updates)]]]

updateResourceInState(prev, resId, updates) ==
  [prev EXCEPT !.resources =
     [r \in 1..Len(prev.resources) |->
        IF prev.resources[r].id = resId THEN updates @@ prev.resources[r]
        ELSE prev.resources[r]]]

\* StepList / RecursiveStep: the Steps that are rendered, each with its button
RECURSIVE RenderedSteps(_)
RenderedSteps(steps) ==
  UNION { {steps[i]} \cup
          (IF Has(steps[i], "isExpanded") /\ steps[i].isExpanded
              /\ Has(steps[i], "subSteps")
           THEN RenderedSteps(steps[i].subSteps) ELSE {})
          : i \in 1..Len(steps) }

PlanSteps(plan) == Concat([i \in 1..Len(plan) |-> ItemSteps(plan[i])])

\* renderProcessScreen: the detail screen is rendered
DetailRendered(st) ==
  /\ st.stage = "PROCESS"
  /\ ActiveIndex(st) # 0
  /\ Has(st.strategies[ActiveIndex(st)], "plan")

Truthy(o, k) == Has(o, k) /\ o[k] = TRUE

----------------------------------------------------------------------------
(* Requests in flight *)

\* kind: strategies | plan | expand | resource; target: the strategy, Step or
\* Resource id the closure holds; lang: the closure's state.language; names: the
\* closure's state.resources' lower-cased names (expand); caught: whether the
\* call is awaited inside a try/catch
Request(kind, target, lang, names, caught) ==
  [rid |-> nreq + 1, kind |-> kind, target |-> target, lang |-> lang,
   names |-> names, caught |-> caught]

\* a request is sent; its answer takes at least a millisecond
Issue(req) ==
  /\ nreq < MaxRequests
  /\ pending' = pending \cup {req}
  /\ nreq' = nreq + 1
  /\ now' = now + 1

Settle(req) ==
  /\ pending' = pending \ {req}
  /\ nreq' = nreq

\* Date.now() when an answer arrives: the clock's value, or a later one
ClockReads == { t \in {now, now + 1} : t - nreq <= MaxTicks }

Ran(ev, id, issued) == last' = [ev |-> ev, id |-> id, issued |-> issued]

\* the same for a click, with the text that was clicked
Clicked(resourceName, id, issued) ==
  last' = [ev |-> "resourceClick", id |-> id, issued |-> issued, name |-> resourceName]

LowerNames(resources) == { toLowerCase(resources[i].name) : i \in 1..Len(resources) }

----------------------------------------------------------------------------
(* App.tsx: the state and its handlers *)

InitialState ==
  [description |-> <<>>, quantification |-> <<>>, environment |-> <<>>,
   strategies |-> <<>>, resources |-> <<>>,
   selectedResourceId |-> Null, selectedStrategyId |-> Null,
   stage |-> "INPUT", loading |-> FALSE, error |-> Null, language |-> "en"]

Init ==
  /\ state = InitialState
  /\ pending = {}
  /\ nreq = 0
  /\ now = 0
  /\ nres = 0
  /\ last = [ev |-> "init", id |-> Null, issued |-> FALSE]

\* the onChange of the three inputs and the example buttons (renderInputScreen)
handleInput ==
  /\ state.stage = "INPUT"
  /\ \E field \in {"description", "quantification", "environment"} :
       \E text \in (IF field = "description" THEN GoalTexts ELSE DetailTexts) :
         /\ state[field] # text
         /\ state' = [state EXCEPT ![field] = text]
  /\ Ran("input", Null, FALSE)
  /\ UNCHANGED <<pending, nreq, now, nres>>

\* handleGenerate, up to its await
GenerateStarted(prev) ==
  [prev EXCEPT !.loading = TRUE, !.stage = "PROCESSING", !.error = Null,
               !.strategies = <<>>, !.resources = <<>>,
               !.selectedResourceId = Null, !.selectedStrategyId = Null]

handleGenerate ==
  /\ state.stage = "INPUT"
  /\ IF Trim(state.description) = <<>>
     THEN /\ Ran("generate", Null, FALSE)
          /\ UNCHANGED <<state, pending, nreq, now, nres>>
     ELSE /\ state' = GenerateStarted(state)
          /\ Issue(Request("strategies", Null, state.language, {}, TRUE))
          /\ Ran("generate", Null, TRUE)
          /\ UNCHANGED nres

\* a completion that drops its result when the user has left the processing screen
StrategiesArrivedIfWaiting(prev, strategies) ==
  IF prev.stage = "PROCESSING"
  THEN [prev EXCEPT !.loading = FALSE, !.stage = "SELECTION",
                    !.strategies = strategies, !.resources = <<>>]
  ELSE prev

\* handleGenerate, after generateStrategies resolved
StrategiesArrived(prev, strategies) ==
  [prev EXCEPT !.loading = FALSE, !.stage = "SELECTION",
               !.strategies = strategies, !.resources = <<>>]

\* a catch that forgets the stage: the stage stays where the request left it
StrategiesRejectedStuck(prev, lang) ==
  [prev EXCEPT !.loading = FALSE, !.error = ErrorGeneric(lang)]

\* handleGenerate, the catch
StrategiesRejected(prev, lang) ==
  [prev EXCEPT !.loading = FALSE, !.stage = "INPUT", !.error = ErrorGeneric(lang)]

strategiesResolve(req) ==
  /\ req.kind = "strategies"
  /\ \E response \in Responses(RawStrategyLists), t \in ClockReads :
       /\ ~generateStrategies(response, t).threw
       /\ state' = StrategiesArrived(state, generateStrategies(response, t).value)
       /\ now' = t
  /\ Settle(req)
  /\ Ran("strategiesDone", Null, FALSE)
  /\ UNCHANGED nres

strategiesReject(req) ==
  /\ req.kind = "strategies"
  /\ state' = StrategiesRejected(state, req.lang)
  /\ Settle(req)
  /\ Ran("strategiesFailed", Null, FALSE)
  /\ UNCHANGED <<now, nres>>

\* the test without the language: only !strategy.plan || strategy.plan.length === 0
PlanNeededWhenEmpty(strategy, language) ==
  ~Has(strategy, "plan") \/ Len(strategy.plan) = 0

\* handleSelectStrategy: the plan has to be (re)generated
PlanNeeded(strategy, language) ==
  \/ ~Has(strategy, "plan")
  \/ Len(strategy.plan) = 0
  \/ ~Has(strategy, "planLanguage")
  \/ strategy.planLanguage # language

PlanStarted(prev) == [prev EXCEPT !.loading = TRUE, !.stage = "PROCESSING"]

PlanCached(prev, strategyId) ==
  [prev EXCEPT !.selectedStrategyId = strategyId, !.stage = "PROCESS"]

handleSelectStrategy(strategyId) ==
  /\ state.stage = "SELECTION"
  /\ LET i == FindById(state.strategies, strategyId)
     IN /\ i # 0
        /\ IF PlanNeeded(state.strategies[i], state.language)
           THEN /\ state' = PlanStarted(state)
                /\ Issue(Request("plan", strategyId, state.language, {}, TRUE))
                /\ Ran("select", strategyId, TRUE)
           ELSE /\ state' = PlanCached(state, strategyId)
                /\ Ran("select", strategyId, FALSE)
                /\ UNCHANGED <<pending, nreq, now>>
  /\ UNCHANGED nres

\* a completion that tags the plan with the language active when it arrives
PlanArrivedActive(prev, strategyId, plan, newResources, lang) ==
  [prev EXCEPT !.loading = FALSE, !.stage = "PROCESS",
               !.selectedStrategyId = strategyId,
               !.resources = newResources,
               !.strategies =
                  [s \in 1..Len(prev.strategies) |->
                     IF prev.strategies[s].id = strategyId
                     THEN [plan |-> plan, planLanguage |-> prev.language]
                          @@ prev.strategies[s]
                     ELSE prev.strategies[s]]]

\* handleSelectStrategy, after generateStrategyPlan resolved
PlanArrived(prev, strategyId, plan, newResources, lang) ==
  [prev EXCEPT !.loading = FALSE, !.stage = "PROCESS",
               !.selectedStrategyId = strategyId,
               !.resources = newResources,
               !.strategies =
                  [s \in 1..Len(prev.strategies) |->
                     IF prev.strategies[s].id = strategyId
                     THEN [plan |-> plan, planLanguage |-> lang] @@ prev.strategies[s]
                     ELSE prev.strategies[s]]]

\* a catch that resets the registry as handleGenerate's start does
PlanRejectedClearing(prev, lang) ==
  [prev EXCEPT !.loading = FALSE, !.stage = "SELECTION", !.error = ErrorGeneric(lang),
               !.resources = <<>>]

\* handleSelectStrategy, the catch
PlanRejected(prev, lang) ==
  [prev EXCEPT !.loading = FALSE, !.stage = "SELECTION", !.error = ErrorGeneric(lang)]

\* the completion of a plan request whose answer is one of the payloads
planResolveWith(req, payloads) ==
  /\ req.kind = "plan"
  /\ \E response \in Responses(payloads), t \in ClockReads :
       /\ ~generateStrategyPlan(response, t).threw
       /\ LET plan == generateStrategyPlan(response, t).value
              newResources == addResource(PlanMentions(plan), {}, <<>>, nres + 1, req.lang)
          IN /\ state' = PlanArrived(state, req.target, plan, newResources, req.lang)
             /\ nres' = nres + Len(newResources)
       /\ now' = t
  /\ Settle(req)
  /\ Ran("planDone", req.target, FALSE)

planResolve(req) == planResolveWith(req, RawPlans)

planReject(req) ==
  /\ req.kind = "plan"
  /\ state' = PlanRejected(state, req.lang)
  /\ Settle(req)
  /\ Ran("planFailed", req.target, FALSE)
  /\ UNCHANGED <<now, nres>>

\* a reset that leaves the three texts of the input screen as they are
ResetStateKeepingTexts(prev) ==
  [prev EXCEPT !.stage = "INPUT", !.strategies = <<>>, !.resources = <<>>]

ResetState(prev) ==
  [prev EXCEPT !.stage = "INPUT", !.strategies = <<>>, !.resources = <<>>,
               !.description = <<>>, !.quantification = <<>>, !.environment = <<>>]

\* the logo of renderHeader, rendered in every stage; the "new goal" buttons call
\* the same handler
handleReset ==
  /\ state' = ResetState(state)
  /\ Ran("reset", Null, FALSE)
  /\ UNCHANGED <<pending, nreq, now, nres>>

BackState(prev) == [prev EXCEPT !.stage = "SELECTION", !.selectedStrategyId = Null]

handleBackToSelection ==
  /\ DetailRendered(state)
  /\ state' = BackState(state)
  /\ Ran("back", Null, FALSE)
  /\ UNCHANGED <<pending, nreq, now, nres>>

ToggledState(prev) ==
  [prev EXCEPT !.language = OtherLanguage(prev.language), !.error = Null]

toggleLanguage ==
  /\ state' = ToggledState(state)
  /\ Ran("toggle", Null, FALSE)
  /\ UNCHANGED <<pending, nreq, now, nres>>

----------------------------------------------------------------------------
(* App.tsx: step expansion and resources, reachable from the detail screen *)

\* the Steps whose expand button is rendered (StepList over activeStrategy.plan)
Rendered(st) ==
  IF DetailRendered(st)
  THEN RenderedSteps(PlanSteps(st.strategies[ActiveIndex(st)].plan))
  ELSE {}

\* the test with length > 1: a single sub-step does not count
HasSubStepsSeveral(step) == Has(step, "subSteps") /\ Len(step.subSteps) > 1

\* targetStep.subSteps && targetStep.subSteps.length > 0
HasSubSteps(step) == Has(step, "subSteps") /\ Len(step.subSteps) > 0

\* !targetStep.isExpanded
NotExpanded(step) == ~(Has(step, "isExpanded") /\ step.isExpanded)

\* handleExpandStep, the branch of a Step that has sub-steps
ExpandToggled(prev, targetStep) ==
  updateStepInState(prev, targetStep.id, [isExpanded |-> NotExpanded(targetStep)])

\* handleExpandStep, up to its await
ExpandStarted(prev, targetStep) ==
  updateStepInState(prev, targetStep.id, [loading |-> TRUE])

handleExpandStep(targetStep) ==
  /\ targetStep \in Rendered(state)
  /\ ~Truthy(targetStep, "loading")          \* disabled={step.loading}
  /\ IF HasSubSteps(targetStep)
     THEN /\ state' = ExpandToggled(state, targetStep)
          /\ Ran("expand", targetStep.id, FALSE)
          /\ UNCHANGED <<pending, nreq, now>>
     ELSE /\ state' = ExpandStarted(state, targetStep)
          /\ Issue(Request("expand", targetStep.id, state.language,
                           LowerNames(state.resources), TRUE))
          /\ Ran("expand", targetStep.id, TRUE)
  /\ UNCHANGED nres

\* handleExpandStep, after expandStep resolved: the two setState calls
ExpandArrived(prev, stepId, subSteps, newResources) ==
  updateStepInState([prev EXCEPT !.resources = prev.resources \o newResources],
                    stepId,
                    [loading |-> FALSE, isExpanded |-> TRUE, subSteps |-> subSteps])

\* handleExpandStep, the catch
ExpandRejected(prev, stepId) == updateStepInState(prev, stepId, [loading |-> FALSE])

expandResolve(req) ==
  /\ req.kind = "expand"
  /\ \E response \in Responses(RawSubStepLists), t \in ClockReads :
       /\ ~expandStep(response, t).threw
       /\ LET subSteps == expandStep(response, t).value
              newResources == addExpandResource(StepMentions(subSteps), req.names,
                                                <<>>, nres + 1, req.lang)
          IN /\ state' = ExpandArrived(state, req.target, subSteps, newResources)
             /\ nres' = nres + Len(newResources)
       /\ now' = t
  /\ Settle(req)
  /\ Ran("expandDone", req.target, FALSE)

expandReject(req) ==
  /\ req.kind = "expand"
  /\ state' = ExpandRejected(state, req.target)
  /\ Settle(req)
  /\ Ran("expandFailed", req.target, FALSE)
  /\ UNCHANGED <<now, nres>>

\* handleResourceClick: state.resources.find(r => r.name.toLowerCase() === ...)
ExistingIndex(st, cleanName) ==
  First({ i \in 1..Len(st.resources) :
            toLowerCase(st.resources[i].name) = toLowerCase(cleanName) })

\* the test without the language: only !existing.acquisitionSteps
FetchNeededWhenAbsent(existing, language) == ~Has(existing, "acquisitionSteps")

\* handleResourceClick: !existing.acquisitionSteps || existing.language !== state.language
FetchNeeded(existing, language) ==
  ~Has(existing, "acquisitionSteps") \/ existing.language # language

\* handleFetchResourcePlan, up to its await
FetchStarted(prev, resourceId) ==
  updateResourceInState(prev, resourceId, [loading |-> TRUE])

ResourceSelected(prev, resourceId) == [prev EXCEPT !.selectedResourceId = resourceId]

\* handleResourceClick, the branch of a name that is not in the registry
ResourceSynthesized(prev, newRes) ==
  [prev EXCEPT !.resources = <<newRes>> \o prev.resources,
               !.selectedResourceId = newRes.id]

\* a bracketed text of a rendered instruction is clicked (StepRenderer)
handleResourceClick(resourceName) ==
  /\ Rendered(state) # {}
  /\ LET cleanName == cleanNameOf(resourceName)
         e == ExistingIndex(state, cleanName)
     IN IF e # 0
        THEN LET existing == state.resources[e]
             IN IF FetchNeeded(existing, state.language)
                THEN /\ state' = FetchStarted(ResourceSelected(state, existing.id),
                                              existing.id)
                     /\ Issue(Request("resource", existing.id, state.language, {}, TRUE))
                     /\ Clicked(resourceName, existing.id, TRUE)
                     /\ UNCHANGED nres
                ELSE /\ state' = ResourceSelected(state, existing.id)
                     /\ Clicked(resourceName, existing.id, FALSE)
                     /\ UNCHANGED <<pending, nreq, now, nres>>
        ELSE LET newRes == [id |-> <<"res", nres + 1>>, name |-> cleanName,
                            isExpanded |-> TRUE, loading |-> TRUE,
                            language |-> state.language]
             IN /\ state' = ResourceSynthesized(state, newRes)
                /\ Issue(Request("resource", newRes.id, state.language, {}, FALSE))
                /\ Clicked(resourceName, newRes.id, TRUE)
                /\ nres' = nres + 1

\* the then of handleResourceClick and the try of handleFetchResourcePlan
ResourceArrived(prev, resId, steps, lang) ==
  updateResourceInState(prev, resId,
                        [loading |-> FALSE, acquisitionSteps |-> steps, language |-> lang])

\* handleFetchResourcePlan, the catch; the promise of handleResourceClick has none
ResourceRejected(prev, resId, caught) ==
  IF caught THEN updateResourceInState(prev, resId, [loading |-> FALSE]) ELSE prev

resourceResolve(req) ==
  /\ req.kind = "resource"
  /\ \E response \in Responses(RawResourceStepLists), t \in ClockReads :
       /\ ~generateResourcePlan(response, t).threw
       /\ state' = ResourceArrived(state, req.target,
                                   generateResourcePlan(response, t).value, req.lang)
       /\ now' = t
  /\ Settle(req)
  /\ Ran("resourceDone", req.target, FALSE)
  /\ UNCHANGED nres

resourceReject(req) ==
  /\ req.kind = "resource"
  /\ state' = ResourceRejected(state, req.target, req.caught)
  /\ Settle(req)
  /\ Ran("resourceFailed", req.target, FALSE)
  /\ UNCHANGED <<now, nres>>

----------------------------------------------------------------------------

UserEvent ==
  \/ handleInput
  \/ handleGenerate
  \/ \E i \in 1..Len(state.strategies) : handleSelectStrategy(state.strategies[i].id)
  \/ handleReset
  \/ handleBackToSelection
  \/ toggleLanguage
  \/ \E targetStep \in Rendered(state) : handleExpandStep(targetStep)
  \/ \E resourceName \in ClickNames : handleResourceClick(resourceName)

\* a request resolves with a response, or rejects (the network fails, or
\* JSON.parse throws inside the service function)
Completion(req) ==
  \/ strategiesResolve(req)
  \/ strategiesReject(req)
  \/ planResolve(req)
  \/ planReject(req)
  \/ expandResolve(req)
  \/ expandReject(req)
  \/ resourceResolve(req)
  \/ resourceReject(req)

Next ==
  \/ UserEvent
  \/ \E req \in pending : Completion(req)

Spec == Init /\ [][Next]_vars

----------------------------------------------------------------------------
(* The detail screen on its own: the session that starts when the plan of   *)
(* the selected strategy has just arrived, and stays on the screen.          *)

\* the goal was typed, generated, strategy k selected and its plan generated;
\* the clock starts when the plan arrives
DetailStart(rawStrategies, k, rawPlan) ==
  LET typed == [InitialState EXCEPT !.description = <<"g">>]
      chosen == StrategiesArrived(GenerateStarted(typed),
                                  NormalizeStrategies(rawStrategies, -1))
      plan == NormalizePlan(rawPlan, 0)
      newResources == addResource(PlanMentions(plan), {}, <<>>, 1, typed.language)
  IN PlanArrived(PlanStarted(chosen), chosen.strategies[k].id, plan, newResources,
                 typed.language)

InitDetail ==
  /\ \E rawPlan \in RawPlans \ {<<>>} :
       state = DetailStart(<<RawStrategy, RawStrategy>>, 1, rawPlan)
  /\ pending = {}
  /\ nreq = 0
  /\ now = 0
  /\ nres = Len(state.resources)
  /\ last = [ev |-> "planDone", id |-> state.selectedStrategyId, issued |-> FALSE]

DetailCompletion(req) ==
  \/ expandResolve(req)
  \/ expandReject(req)
  \/ resourceResolve(req)
  \/ resourceReject(req)

NextDetail ==
  \/ toggleLanguage
  \/ \E targetStep \in Rendered(state) :
       handleExpandStep(targetStep) /\ nreq' <= MaxDetailRequests
  \/ \E resourceName \in ClickNames :
       handleResourceClick(resourceName) /\ nreq' <= MaxDetailRequests
  \/ \E req \in pending : DetailCompletion(req)

SpecDetail == InitDetail /\ [][NextDetail]_vars

----------------------------------------------------------------------------
(* The completion of one plan request: the user has selected a strategy,    *)
(* the request is in flight, and the answer is a plan of two items, a       *)
(* parallel group of two Steps and a single Step, with mentions of any      *)
(* spelling.                                                                *)

MentionLists ==
  { <<>>, <<MentionH>>, <<Mentionh>>, <<MentionV>>, <<MentionEmpty>>,
    <<MentionH, Mentionh>> }

ExtractionPlans ==
  { << [type |-> "parallel",
        parallelSteps |-> << [instruction |-> "text", resources |-> a],
                             [instruction |-> "text", resources |-> b] >>],
       [type |-> "single", instruction |-> "text", resources |-> c] >>
    : a \in MentionLists, b \in MentionLists, c \in MentionLists }

\* the goal was typed, generated, and a strategy has just been selected
SelectStart(rawStrategies) ==
  LET typed == [InitialState EXCEPT !.description = <<"g">>]
  IN PlanStarted(StrategiesArrived(GenerateStarted(typed),
                                   NormalizeStrategies(rawStrategies, -1)))

InitPlan ==
  /\ state = SelectStart(<<RawStrategy, RawStrategy>>)
  /\ pending = { [rid |-> 1, kind |-> "plan", target |-> state.strategies[1].id,
                  lang |-> state.language, names |-> {}, caught |-> TRUE] }
  /\ nreq = 1
  /\ now = 0
  /\ nres = 0
  /\ last = [ev |-> "select", id |-> state.strategies[1].id, issued |-> TRUE]

NextPlan ==
  \/ toggleLanguage
  \/ \E req \in pending : planResolveWith(req, ExtractionPlans)
  \/ \E req \in pending : planReject(req)

SpecPlan == InitPlan /\ [][NextPlan]_vars

----------------------------------------------------------------------------
(* The detail screen of a user who only expands Steps: one request more.    *)

MaxExpandRequests == 3

NextExpand ==
  \/ \E targetStep \in Rendered(state) :
       handleExpandStep(targetStep) /\ nreq' <= MaxExpandRequests
  \/ \E req \in pending : expandResolve(req)
  \/ \E req \in pending : expandReject(req)

SpecExpand == InitDetail /\ [][NextExpand]_vars

----------------------------------------------------------------------------
(* updateStepInState as a function: plans of every shape up to MaxDepth     *)
(* levels of sub-steps, whose Steps have pairwise distinct identities,      *)
(* and one call.                                                            *)

MaxDepth == 2

\* a Step as expandStep returns it, at the place `path`, over `depth` more levels
RECURSIVE SubStepTrees(_, _)
SubStepTrees(path, depth) ==
  LET bare == [id |-> <<"substep">> \o path, instruction |-> "text", resources |-> <<>>]
      first == IF depth = 0 THEN {} ELSE SubStepTrees(path \o <<0>>, depth - 1)
      second == IF depth = 0 THEN {} ELSE SubStepTrees(path \o <<1>>, depth - 1)
  IN {bare}
     \cup { [loading |-> FALSE, isExpanded |-> e, subSteps |-> <<a>>] @@ bare :
              e \in BOOLEAN, a \in first }
     \cup { [loading |-> FALSE, isExpanded |-> TRUE, subSteps |-> <<a, b>>] @@ bare :
              a \in first, b \in second }

\* a Step as generateStrategyPlan returns it, with `depth` levels of sub-steps
TopStepTrees(id, path, depth) ==
  LET bare == [id |-> id, instruction |-> "text", resources |-> <<>>,
               subSteps |-> <<>>, isExpanded |-> FALSE]
      first == IF depth = 0 THEN {} ELSE SubStepTrees(path \o <<0>>, depth - 1)
      second == IF depth = 0 THEN {} ELSE SubStepTrees(path \o <<1>>, depth - 1)
  IN {bare}
     \cup { [loading |-> TRUE] @@ bare }
     \cup { [loading |-> FALSE, isExpanded |-> TRUE, subSteps |-> <<a>>] @@ bare :
              a \in first }
     \cup { [loading |-> FALSE, isExpanded |-> FALSE, subSteps |-> <<a, b>>] @@ bare :
              a \in first, b \in second }

SingleItem(step) == [type |-> "single", step |-> step]

ParallelItem(k, steps) == [type |-> "parallel", group |-> [id |-> <<"group", 0, k>>, steps |-> steps]]

TreePlans ==
  { <<SingleItem(a)>> : a \in TopStepTrees(<<"step", 0, 0>>, <<0>>, MaxDepth) }
  \cup
  { <<ParallelItem(0, <<a, b>>)>> :
      a \in TopStepTrees(<<"step", 0, 0, 0>>, <<0>>, MaxDepth),
      b \in TopStepTrees(<<"step", 0, 0, 1>>, <<1>>, 1) }
  \cup
  { <<SingleItem(a), ParallelItem(1, <<b>>)>> :
      a \in TopStepTrees(<<"step", 0, 0>>, <<0>>, 1),
      b \in TopStepTrees(<<"step", 0, 1, 0>>, <<1>>, MaxDepth) }

\* a second strategy, whose plan the call must leave alone
OtherPlan ==
  <<SingleItem([id |-> <<"step", 5, 0>>, instruction |-> "text", resources |-> <<>>,
                subSteps |-> <<[id |-> <<"substep", 5, 0>>, instruction |-> "text",
                                resources |-> <<>>]>>,
                isExpanded |-> TRUE])>>

TreeState(plan) ==
  [InitialState EXCEPT
     !.description = <<"g">>,
     !.stage = "PROCESS",
     !.selectedStrategyId = <<"strategy", 0, 0>>,
     !.strategies =
        << [id |-> <<"strategy", 0, 0>>, title |-> "title", description |-> "description",
            plan |-> plan, planLanguage |-> "en"],
           [id |-> <<"strategy", 0, 1>>, title |-> "title", description |-> "description",
            plan |-> OtherPlan, planLanguage |-> "en"],
           [id |-> <<"strategy", 0, 2>>, title |-> "title", description |-> "description",
            plan |-> <<>>] >>,
     !.resources = <<NewResource(1, <<"H">>, "en")>>]

\* every Step of a sequence of Steps, at every depth
RECURSIVE AllSteps(_)
AllSteps(steps) ==
  UNION { {steps[i]} \cup
          (IF Has(steps[i], "subSteps") THEN AllSteps(steps[i].subSteps) ELSE {})
          : i \in 1..Len(steps) }

\* every Step of every strategy's plan
StateSteps(st) ==
  UNION { AllSteps(PlanSteps(st.strategies[s].plan)) : s \in 1..Len(st.strategies) }

StepIds(st) == { step.id : step \in StateSteps(st) }

\* the sub-steps an expansion brings
FreshSubSteps ==
  <<[id |-> <<"substep", 9, 0>>, instruction |-> "text", resources |-> <<MentionV>>],
    [id |-> <<"substep", 9, 1>>, resources |-> <<>>]>>

\* the patches handleExpandStep passes
Patches ==
  { [loading |-> TRUE], [loading |-> FALSE], [isExpanded |-> TRUE], [isExpanded |-> FALSE],
    [loading |-> FALSE, isExpanded |-> TRUE, subSteps |-> FreshSubSteps] }

\* identities no Step carries: a stale one, a group's, a strategy's, a resource's
AbsentIds == { <<"step", 9, 9>>, <<"group", 0, 0>>, <<"strategy", 0, 0>>, <<"res", 1>> }

InitTree ==
  /\ \E plan \in TreePlans : state = TreeState(plan)
  /\ pending = {}
  /\ nreq = 0
  /\ now = 0
  /\ nres = 1
  /\ last = [ev |-> "init", id |-> Null, issued |-> FALSE]

\* one call updateStepInState(stepId, updates)
CallUpdateStep ==
  /\ last.ev = "init"
  /\ \E stepId \in StepIds(state) \cup AbsentIds, updates \in Patches :
       /\ state' = updateStepInState(state, stepId, updates)
       /\ last' = [ev |-> "updateStep", id |-> stepId, issued |-> FALSE,
                   updates |-> updates, prev |-> state]
  /\ UNCHANGED <<pending, nreq, now, nres>>

NextTree == CallUpdateStep

SpecTree == InitTree /\ [][NextTree]_vars

----------------------------------------------------------------------------
(* The service functions as functions: one call on one response, over       *)
(* payloads of every shape the response schema leaves open.                 *)

\* a property that may be missing: no key, or the key with one of the values
Optional(k, values) == {<<>>} \cup { k :> v : v \in values }

ServiceParallelSteps ==
  { a @@ b : a \in Optional("instruction", {"text"}),
             b \in Optional("resources", {<<MentionH>>}) }

ServicePlanItems ==
  { a @@ b @@ c @@ d :
      a \in Optional("type", {"single", "parallel"}),
      b \in Optional("instruction", {"", "text"}),
      c \in Optional("resources", {<<MentionH, Mentionh>>}),
      d \in Optional("parallelSteps",
                     {<<>>} \cup { <<ps>> : ps \in ServiceParallelSteps }) }

ServicePlans ==
  RawPlans \cup { <<item>> : item \in ServicePlanItems }

ServiceSteps ==
  { a @@ b : a \in Optional("instruction", {"text"}),
             b \in Optional("resources", {<<>>, <<Mentionv>>, <<MentionEmpty>>}) }

ServiceStepLists ==
  RawSubStepLists \cup RawResourceStepLists \cup { <<st>> : st \in ServiceSteps }

ServiceStrategyLists == RawStrategyLists \cup { <<RawStrategy, RawStrategy, RawStrategy>> }

ServiceKinds == {"strategies", "plan", "expand", "resource"}

ServicePayloads(kind) ==
  CASE kind = "strategies" -> ServiceStrategyLists
    [] kind = "plan" -> ServicePlans
    [] OTHER -> ServiceStepLists

\* the service function of a request kind, from the response on
ServiceCall(kind, response, t) ==
  CASE kind = "strategies" -> generateStrategies(response, t)
    [] kind = "plan" -> generateStrategyPlan(response, t)
    [] kind = "expand" -> expandStep(response, t)
    [] kind = "resource" -> generateResourcePlan(response, t)

InitService ==
  /\ state = InitialState
  /\ pending = {}
  /\ nreq = 0
  /\ now \in 0..MaxTicks
  /\ nres = 0
  /\ last = [ev |-> "init", id |-> Null, issued |-> FALSE]

\* one call of one service function answers with an outcome
CallService ==
  /\ last.ev = "init"
  /\ \E kind \in ServiceKinds :
       \E response \in Responses(ServicePayloads(kind)) :
          last' = [ev |-> "service", id |-> Null, issued |-> FALSE, kind |-> kind,
                   response |-> response, outcome |-> ServiceCall(kind, response, now)]
  /\ UNCHANGED <<state, pending, nreq, now, nres>>

NextService == CallService

SpecService == InitService /\ [][NextService]_vars

----------------------------------------------------------------------------
(* Every request is answered: an answer that can arrive does arrive *)

Answered(rid) == \E req \in pending : req.rid = rid /\ Completion(req)

SpecFair ==
  /\ Init
  /\ [][Next]_vars
  /\ \A rid \in 1..MaxRequests : WF_vars(Answered(rid))

----------------------------------------------------------------------------
(* The places of the Steps of a state: <<strategy, item, step, sub-step, ...>> *)

RECURSIVE StepPaths(_)
StepPaths(steps) ==
  UNION { {<<i>>} \cup
          (IF Has(steps[i], "subSteps")
           THEN { <<i>> \o q : q \in StepPaths(steps[i].subSteps) } ELSE {})
          : i \in 1..Len(steps) }

Paths(st) ==
  UNION { UNION { { <<s, i>> \o q : q \in StepPaths(ItemSteps(st.strategies[s].plan[i])) }
                  : i \in 1..Len(st.strategies[s].plan) }
          : s \in 1..Len(st.strategies) }

RECURSIVE StepIn(_, _)
StepIn(steps, q) ==
  IF Len(q) = 1 THEN steps[q[1]] ELSE StepIn(steps[q[1]].subSteps, Tail(q))

StepAt(st, path) ==
  StepIn(ItemSteps(st.strategies[path[1]].plan[path[2]]), SubSeq(path, 3, Len(path)))

\* steps, with the Step at place q replaced by new
RECURSIVE StepsWith(_, _, _)
StepsWith(steps, q, new) ==
  [i \in 1..Len(steps) |->
     IF i # q[1] THEN steps[i]
     ELSE IF Len(q) = 1 THEN new
     ELSE [steps[i] EXCEPT !.subSteps = StepsWith(steps[i].subSteps, Tail(q), new)]]

\* st, with the Step at place path replaced by new and nothing else touched
StateWith(st, path, new) ==
  LET item == st.strategies[path[1]].plan[path[2]]
      steps == StepsWith(ItemSteps(item), SubSeq(path, 3, Len(path)), new)
  IN [st EXCEPT !.strategies[path[1]].plan[path[2]] =
        IF item.type = "single" THEN [item EXCEPT !.step = steps[1]]
        ELSE [item EXCEPT !.group.steps = steps]]

PathsOf(st, stepId) == { path \in Paths(st) : StepAt(st, path).id = stepId }

SubStepIds(step) == [i \in 1..Len(step.subSteps) |-> step.subSteps[i].id]

TopLevel(req) == req.kind \in {"strategies", "plan"}

----------------------------------------------------------------------------
(* The claims *)

\* C1: in every reachable state no two Resources of the registry have names
\* that are equal when compared case-insensitively.
UniqueResourceNames ==
  \A i, j \in 1..Len(state.resources) :
    i # j => toLowerCase(state.resources[i].name) # toLowerCase(state.resources[j].name)

\* C2: every change of the stage is one of the listed transitions (with the
\* return to selection of a failed plan generation, which C5 states, allowed too).
ListedTransition ==
  \/ state'.stage = state.stage
  \/ state.stage = "INPUT" /\ state'.stage = "PROCESSING" /\ last'.ev = "generate"
  \/ state.stage = "PROCESSING" /\ state'.stage = "SELECTION"
       /\ last'.ev \in {"strategiesDone", "planFailed"}
  \/ state.stage = "PROCESSING" /\ state'.stage = "INPUT" /\ last'.ev = "strategiesFailed"
  \/ state.stage = "SELECTION" /\ state'.stage = "PROCESSING" /\ last'.ev = "select"
  \/ state.stage = "PROCESSING" /\ state'.stage = "PROCESS" /\ last'.ev = "planDone"
  \/ state.stage = "SELECTION" /\ state'.stage = "PROCESS" /\ last'.ev = "select"
  \/ state.stage = "PROCESS" /\ state'.stage = "SELECTION" /\ last'.ev = "back"
  \/ state'.stage = "INPUT" /\ last'.ev = "reset"

OnlyListedTransitions == [][ListedTransition]_vars

\* C3: at most one top-level generation request (strategies or plan) is in
\* flight at any time.
OneGenerationInFlight == Cardinality({ req \in pending : TopLevel(req) }) <= 1

\* C4: every request being answered, whenever the stage is processing a later
\* state has another stage.
ProcessingIsLeft == (state.stage = "PROCESSING") ~> (state.stage # "PROCESSING")

ProcessingWasLeft ==
  /\ last.ev \in {"strategiesDone", "strategiesFailed", "planDone", "planFailed"}
  /\ state.stage # "PROCESSING"
  /\ pending = {}

\* C5: a failed top-level generation sets the generic error, clears loading
\* and returns to the stage it was started from (input for strategies,
\* selection for a plan); a failed plan generation leaves the strategies and
\* the registry as they were.
FailureReverts ==
  /\ last'.ev = "strategiesFailed" =>
       /\ state'.error \in { ErrorGeneric(l) : l \in Languages }
       /\ state'.loading = FALSE
       /\ state'.stage = "INPUT"
  /\ last'.ev = "planFailed" =>
       /\ state'.error \in { ErrorGeneric(l) : l \in Languages }
       /\ state'.loading = FALSE
       /\ state'.stage = "SELECTION"
       /\ state'.strategies = state.strategies
       /\ state'.resources = state.resources

TopLevelFailureReverts == [][FailureReverts]_vars

PlanFailureSeen ==
  /\ last.ev = "planFailed"
  /\ state.stage = "SELECTION"
  /\ state.error \in { ErrorGeneric(l) : l \in Languages }
  /\ state.resources # <<>>
  /\ \E s \in 1..Len(state.strategies) : state.strategies[s].plan # <<>>

\* C6: updateStepInState with an identity one Step of the plans carries
\* returns the state in which the Step at that place is the merge of the
\* patch over the old Step, and everything else is equal and where it was.
ReplacesExactlyThatStep ==
  (last.ev = "updateStep" /\ PathsOf(last.prev, last.id) # {}) =>
     \E path \in PathsOf(last.prev, last.id) :
        /\ PathsOf(last.prev, last.id) = {path}
        /\ state = StateWith(last.prev, path, last.updates @@ StepAt(last.prev, path))

NestedStepReplaced ==
  /\ last.ev = "updateStep"
  /\ \E path \in PathsOf(last.prev, last.id) :
       /\ Len(path) = 3 + MaxDepth
       /\ path[2] = 2
       /\ StepAt(state, path) # StepAt(last.prev, path)
       /\ Has(last.updates, "subSteps")

\* C7: updateStepInState with an identity no Step carries returns strategies
\* and plans equal to the input and changes no other part of the state.
AbsentIdChangesNothing ==
  (last.ev = "updateStep" /\ PathsOf(last.prev, last.id) = {}) => state = last.prev

GroupIdentityTried ==
  /\ last.ev = "updateStep"
  /\ PathsOf(last.prev, last.id) = {}
  /\ \E s \in 1..Len(last.prev.strategies) :
       \E i \in 1..Len(last.prev.strategies[s].plan) :
          LET item == last.prev.strategies[s].plan[i]
          IN item.type = "parallel" /\ item.group.id = last.id
  /\ Has(last.updates, "subSteps")

\* C8: expand on a Step whose sub-steps are non-empty issues no request,
\* leaves its subSteps as they are and only flips its isExpanded; and over
\* every step of the system the sub-step list of a Step that stays in the plan,
\* once non-empty, stays the same list of sub-steps.
ExpandedOnce ==
  /\ \A path \in Paths(state) :
       LET step == StepAt(state, path)
       IN (/\ last'.ev = "expand"
           /\ step.id = last'.id
           /\ Has(step, "subSteps")
           /\ step.subSteps # <<>>) =>
             /\ pending' = pending
             /\ nreq' = nreq
             /\ path \in Paths(state')
             /\ StepAt(state', path) = [step EXCEPT !.isExpanded = ~step.isExpanded]
  /\ \A path \in Paths(state) :
       LET step == StepAt(state, path)
       IN (/\ Has(step, "subSteps")
           /\ step.subSteps # <<>>
           /\ path \in Paths(state')
           /\ StepAt(state', path).id = step.id) =>
             /\ Has(StepAt(state', path), "subSteps")
             /\ SubStepIds(StepAt(state', path)) = SubStepIds(step)

NeverExpandedAgain == [][ExpandedOnce]_vars

CollapsedAgain ==
  /\ last.ev = "expand"
  /\ ~last.issued
  /\ \E path \in PathsOf(state, last.id) :
       LET step == StepAt(state, path)
       IN /\ Has(step, "subSteps")
          /\ step.subSteps # <<>>
          /\ step.isExpanded = FALSE

\* C9: a click on a name that matches a Resource of the registry
\* case-insensitively selects that Resource, and starts a fetch for it (a
\* request is sent and its loading becomes true) exactly when it has no
\* acquisition steps or its language differs from the active language.
ClickRefetches ==
  last'.ev = "resourceClick" =>
    LET lower == toLowerCase(cleanNameOf(last'.name))
        matches == { i \in 1..Len(state.resources) :
                       toLowerCase(state.resources[i].name) = lower }
    IN matches # {} =>
         LET e == CHOOSE i \in matches : \A j \in matches : i <= j
             existing == state.resources[e]
             stale == \/ "acquisitionSteps" \notin DOMAIN existing
                      \/ existing.language # state.language
             fetches == { req \in pending' \ pending :
                            req.kind = "resource" /\ req.target = existing.id }
         IN /\ state'.selectedResourceId = existing.id
            /\ state'.resources[e].id = existing.id
            /\ stale <=> (fetches # {} /\ Truthy(state'.resources[e], "loading"))
            /\ ~stale => pending' = pending /\ state'.resources = state.resources

ClickSelectsAndRefetches == [][ClickRefetches]_vars

RefetchedInOtherLanguage ==
  /\ last.ev = "resourceClick"
  /\ last.issued
  /\ \E i \in 1..Len(state.resources) :
       LET r == state.resources[i]
       IN /\ r.id = last.id
          /\ r.id = state.selectedResourceId
          /\ Has(r, "acquisitionSteps")
          /\ r.language # state.language
          /\ Truthy(r, "loading")

\* C10: selecting a strategy sends a plan request and enters processing if
\* and only if its plan is empty or its plan language differs from the active
\* language; otherwise it goes to detail, sends no request and changes only
\* the selected strategy and the stage.
SelectRegenerates ==
  last'.ev = "select" =>
    \E s \in 1..Len(state.strategies) :
       LET strategy == state.strategies[s]
           stale == \/ strategy.plan = <<>>
                    \/ "planLanguage" \notin DOMAIN strategy
                    \/ strategy.planLanguage # state.language
           requests == { req \in pending' \ pending :
                           req.kind = "plan" /\ req.target = strategy.id }
       IN /\ strategy.id = last'.id
          /\ stale <=> (requests # {} /\ state'.stage = "PROCESSING")
          /\ ~stale =>
               /\ pending' = pending
               /\ state' = [state EXCEPT !.selectedStrategyId = strategy.id,
                                         !.stage = "PROCESS"]

SelectRegeneratesIffStale == [][SelectRegenerates]_vars

StalePlanRegenerated ==
  /\ last.ev = "select"
  /\ last.issued
  /\ state.stage = "PROCESSING"
  /\ \E s \in 1..Len(state.strategies) :
       LET strategy == state.strategies[s]
       IN /\ strategy.id = last.id
          /\ strategy.plan # <<>>
          /\ strategy.planLanguage # state.language

\* C11: immediately after a reset, from whatever stage, the stage is input and
\* strategies, resources, description, quantification and environment are empty.
ResetEmpties ==
  last'.ev = "reset" =>
    /\ state'.stage = "INPUT"
    /\ state'.strategies = <<>>
    /\ state'.resources = <<>>
    /\ state'.description = <<>>
    /\ state'.quantification = <<>>
    /\ state'.environment = <<>>

AfterResetAllEmpty == [][ResetEmpties]_vars

\* a reset from the detail screen: the selection it leaves behind tells
ResetFromDetail ==
  /\ last.ev = "reset"
  /\ state.stage = "INPUT"
  /\ state.selectedStrategyId # Null
  /\ state.description = <<>>
  /\ state.resources = <<>>

\* C12: when a resource-acquisition request fails, for a Resource that was in
\* the registry and for one the click synthesized alike, that Resource's
\* loading is cleared, and no other Resource and no Step is changed.
ResourceFailureClears ==
  last'.ev = "resourceFailed" =>
    /\ Len(state'.resources) = Len(state.resources)
    /\ \A i \in 1..Len(state.resources) :
         IF state.resources[i].id = last'.id
         THEN state'.resources[i] = [loading |-> FALSE] @@ state.resources[i]
         ELSE state'.resources[i] = state.resources[i]
    /\ state'.strategies = state.strategies

ResourceFailureClearsLoading == [][ResourceFailureClears]_vars

\* C17: in every reachable state the Steps of the plans of all strategies
\* (single items, group members, sub-steps) have pairwise distinct identities.
UniqueStepIds ==
  \A p, q \in Paths(state) : StepAt(state, p).id = StepAt(state, q).id => p = q

\* C13: when a step-expansion request fails, only the target Step's loading is
\* cleared: its isExpanded and subSteps, every other Step, the registry, the
\* stage and the error are unchanged.
ExpandFailureClears ==
  last'.ev = "expandFailed" =>
    IF PathsOf(state, last'.id) = {} THEN state' = state
    ELSE \E path \in PathsOf(state, last'.id) :
           state' = StateWith(state, path, [loading |-> FALSE] @@ StepAt(state, path))

ExpandFailureClearsOnlyLoading == [][ExpandFailureClears]_vars

\* C14: for each of the four request kinds a response whose payload is missing
\* or cannot be parsed is normalized to the empty list: the service function
\* returns it and throws nothing.
MalformedGivesEmptyList ==
  (last.ev = "service" /\ last.response.text \in {"undefined", "garbage"}) =>
     last.outcome = Returned(<<>>)

\* C15: resource extraction, at the completion of a plan generation or of a
\* step expansion, is append-only: every Resource that was in the registry
\* before is in it afterwards with all its fields unchanged.
ExtractionKeeps ==
  last'.ev \in {"planDone", "expandDone"} =>
    \A i \in 1..Len(state.resources) :
       \E j \in 1..Len(state'.resources) : state'.resources[j] = state.resources[i]

ExtractionAppendOnly == [][ExtractionKeeps]_vars

\* the answers two racing requests are tried with: each with its own
\* timestamp and its own fresh resource ids, whichever is applied first
Mentionw == <<"w">>

RacingPayloads(req) ==
  IF req.kind = "expand"
  THEN { <<>>,
         << [instruction |-> "text", resources |-> <<Mentionv>>] >>,
         << [instruction |-> "text", resources |-> <<Mentionw>>] >> }
  ELSE RawResourceStepLists

\* the state after the continuation of req has run on st with the payload
Applied(st, req, payload) ==
  IF req.kind = "expand"
  THEN LET subSteps == NormalizeSteps(payload, "substep", now + req.rid)
       IN ExpandArrived(st, req.target, subSteps,
                        addExpandResource(StepMentions(subSteps), req.names, <<>>,
                                          nres + 10 * req.rid, req.lang))
  ELSE ResourceArrived(st, req.target,
                       NormalizeSteps(payload, "res-step", now + req.rid), req.lang)

Racing == { req \in pending : req.kind \in {"expand", "resource"} }

\* C16: two in-flight operations on different identities commute: whichever
\* completion is applied first, the resulting state is the same; of two
\* completions for the same identity the later one determines the value.
CompletionsCommute ==
  \A r1, r2 \in Racing :
    r1 # r2 =>
      \A p1 \in RacingPayloads(r1), p2 \in RacingPayloads(r2) :
        IF r1.target # r2.target
        THEN Applied(Applied(state, r1, p1), r2, p2)
               = Applied(Applied(state, r2, p2), r1, p1)
        ELSE Applied(Applied(state, r1, p1), r2, p2) = Applied(state, r2, p2)

\* C18: applying updateStepInState twice with the same identity and the same
\* patch yields the same plan as applying it once.
UpdateIsIdempotent ==
  last.ev = "updateStep" =>
    updateStepInState(state, last.id, last.updates).strategies = state.strategies

\* a patch that brings sub-steps was applied to a Step that had some
SubStepsPatchedOver ==
  /\ last.ev = "updateStep"
  /\ Has(last.updates, "subSteps")
  /\ \E path \in PathsOf(last.prev, last.id) :
       /\ Len(path) > 3
       /\ Has(StepAt(last.prev, path), "subSteps")
       /\ StepAt(last.prev, path).subSteps # <<>>
       /\ StepAt(state, path).subSteps = last.updates.subSteps

\* C19: generate with an empty or whitespace-only goal text sends no request
\* and leaves the whole state unchanged, stage included.
EmptyGoalBlocked ==
  (/\ last'.ev = "generate"
   /\ \A i \in 1..Len(state.description) : state.description[i] = " ") =>
     /\ state' = state
     /\ pending' = pending
     /\ nreq' = nreq

EmptyGoalBlocksGenerate == [][EmptyGoalBlocked]_vars

WhitespaceGoalTried ==
  /\ last.ev = "generate"
  /\ ~last.issued
  /\ state.description = <<" ">>
  /\ state.stage = "INPUT"
  /\ pending = {}

\* C20: no Resource with an empty name is added to the registry by the
\* extraction of a plan or of a step expansion.
ExtractionSkipsEmpty ==
  last'.ev \in {"planDone", "expandDone"} =>
    \A j \in 1..Len(state'.resources) :
       (\A i \in 1..Len(state.resources) : state.resources[i].id # state'.resources[j].id)
         => state'.resources[j].name # <<>>

NoEmptyNameExtracted == [][ExtractionSkipsEmpty]_vars


----------------------------------------------------------------------------
\* the value under a key, Null standing for an absent one (undefined)
Field(o, k) == IF Has(o, k) THEN o[k] ELSE Null

\* the requests the step has settled
Settled == pending \ pending'

\* C21: generated content is tagged with the language of the request that
\* generated it.  When a plan request completes, the strategy it was issued for
\* carries the request's language as plan-language; when an acquisition request
\* completes, its Resource carries the request's language; and no other step
\* changes the plan-language of a strategy, or the language tag or the
\* acquisition steps of a Resource, that stays in the list.
TaggedWithRequestLanguage ==
  /\ last'.ev = "planDone" =>
       \A req \in Settled : \A s \in 1..Len(state'.strategies) :
          state'.strategies[s].id = req.target =>
            /\ Field(state'.strategies[s], "planLanguage") = req.lang
            /\ Has(state'.strategies[s], "plan")
  /\ last'.ev = "resourceDone" =>
       \A req \in Settled : \A r \in 1..Len(state'.resources) :
          state'.resources[r].id = req.target =>
            /\ state'.resources[r].language = req.lang
            /\ Has(state'.resources[r], "acquisitionSteps")
  /\ last'.ev # "planDone" =>
       \A s \in 1..Len(state.strategies), s2 \in 1..Len(state'.strategies) :
          state.strategies[s].id = state'.strategies[s2].id =>
            Field(state'.strategies[s2], "planLanguage")
              = Field(state.strategies[s], "planLanguage")
  /\ last'.ev # "resourceDone" =>
       \A r \in 1..Len(state.resources), r2 \in 1..Len(state'.resources) :
          state.resources[r].id = state'.resources[r2].id =>
            /\ state'.resources[r2].language = state.resources[r].language
            /\ Field(state'.resources[r2], "acquisitionSteps")
                 = Field(state.resources[r], "acquisitionSteps")

DetailPlanInActiveLanguage ==
  DetailRendered(state) =>
    Field(state.strategies[ActiveIndex(state)], "planLanguage") = state.language


----------------------------------------------------------------------------
\* where a plan mentions a resource: item, Step of the item, mention of the Step
MentionSites(plan) ==
  { <<i, j, m>> \in (1..Len(plan)) \X (1..2) \X (1..2) :
      /\ j <= Len(ItemSteps(plan[i]))
      /\ m <= Len(ItemSteps(plan[i])[j].resources) }

\* site a is mentioned before site b
MentionedBefore(a, b) ==
  \/ a[1] < b[1]
  \/ a[1] = b[1] /\ a[2] < b[2]
  \/ a[1] = b[1] /\ a[2] = b[2] /\ a[3] < b[3]

\* the canonical name of the mention at a site
CanonicalAt(plan, a) == cleanNameOf(ItemSteps(plan[a[1]])[a[2]].resources[a[3]])

\* the sites where a canonical name is mentioned for the first time
FirstMentions(plan) ==
  { a \in MentionSites(plan) :
      /\ CanonicalAt(plan, a) # <<>>
      /\ \A b \in MentionSites(plan) :
           MentionedBefore(b, a) =>
             toLowerCase(CanonicalAt(plan, b)) # toLowerCase(CanonicalAt(plan, a)) }

\* the position of a first mention among the first mentions
RankOf(plan, a) ==
  Cardinality({ b \in FirstMentions(plan) : b = a \/ MentionedBefore(b, a) })

\* C23: when a plan request completes, the registry holds one Resource for each
\* distinct canonical name the plan mentions (an empty name being no name), in
\* the order of first mention; each has the spelling of its first mention, no
\* acquisition steps and the language of the request.
RegistryFromPlan ==
  last'.ev = "planDone" =>
    \A req \in Settled : \A s \in 1..Len(state'.strategies) :
       state'.strategies[s].id = req.target =>
         LET plan == state'.strategies[s].plan
         IN /\ Len(state'.resources) = Cardinality(FirstMentions(plan))
            /\ \A a \in FirstMentions(plan) :
                 LET res == state'.resources[RankOf(plan, a)]
                 IN /\ res.name = CanonicalAt(plan, a)
                    /\ ~Has(res, "acquisitionSteps")
                    /\ res.language = req.lang

PlanCompletionBuildsRegistry == [][RegistryFromPlan]_vars

\* a plan has arrived that mentions one name in two spellings, an empty name and
\* a second name after them, in a language that is no longer the active one
TwoSpellingsExtracted ==
  /\ last.ev = "planDone"
  /\ LET plan == state.strategies[ActiveIndex(state)].plan
     IN /\ \E a \in MentionSites(plan) : CanonicalAt(plan, a) = <<>>
        /\ \E a \in FirstMentions(plan), b \in MentionSites(plan) :
             /\ MentionedBefore(a, b)
             /\ CanonicalAt(plan, a) # CanonicalAt(plan, b)
             /\ toLowerCase(CanonicalAt(plan, a)) = toLowerCase(CanonicalAt(plan, b))
        /\ Len(state.resources) = 2
        /\ state.resources[1].name = <<"H">>
        /\ state.resources[2].name = <<"V">>
        /\ state.resources[1].language # state.language


\* the identities of the Steps, at every depth, of the plan of strategy strategyId
PlanStepIds(st, strategyId) ==
  UNION { { step.id : step \in AllSteps(PlanSteps(st.strategies[s].plan)) }
          : s \in { s \in 1..Len(st.strategies) : st.strategies[s].id = strategyId } }

\* C24: a Step of a strategy's plan stays in that strategy's plan until a full
\* reset: in every step other than a reset, each Step identity found in the plan
\* of a strategy before the step is found in the plan of that strategy after it.
StepsKept ==
  last'.ev # "reset" =>
    \A s \in 1..Len(state.strategies) :
       PlanStepIds(state, state.strategies[s].id)
         \subseteq PlanStepIds(state', state.strategies[s].id)

StepsStayUntilReset == [][StepsKept]_vars


\* C25: a request that resolves applies its result, whatever the state it finds.
\* After a successful strategy generation the stage is SELECTION and the list is
\* the one the answer brought (its identities carry the time of arrival); after
\* a successful plan generation the stage is PROCESS, the strategy the request
\* was issued for is the selected one, and the registry holds only Resources
\* minted by this completion, in the request's language.
ResultApplied ==
  /\ last'.ev = "strategiesDone" =>
       /\ state'.stage = "SELECTION"
       /\ ~state'.loading
       /\ \A s \in 1..Len(state'.strategies) :
            /\ state'.strategies[s].id = <<"strategy", now', s - 1>>
            /\ state'.strategies[s].plan = <<>>
  /\ last'.ev = "planDone" =>
       \A req \in Settled :
          /\ state'.stage = "PROCESS"
          /\ ~state'.loading
          /\ state'.selectedStrategyId = req.target
          /\ \A s \in 1..Len(state'.strategies) :
               state'.strategies[s].id = req.target =>
                 Field(state'.strategies[s], "planLanguage") = req.lang
          /\ Len(state'.resources) = nres' - nres
          /\ \A r \in 1..Len(state'.resources) :
               /\ state'.resources[r].id = <<"res", nres + r>>
               /\ state'.resources[r].language = req.lang

ResolvedRequestApplies == [][ResultApplied]_vars

\* a plan has arrived after a reset made while its request was in flight: the
\* detail stage with the strategy selected, a registry, and no strategy
PlanArrivedAfterReset ==
  /\ last.ev = "planDone"
  /\ state.description = <<>>
  /\ state.strategies = <<>>
  /\ state.stage = "PROCESS"
  /\ state.selectedStrategyId = last.id
  /\ state.resources # <<>>


\* what the claim asks of an emitted Step, given the raw entry it comes from (an
\* empty raw instruction may be kept or replaced by the placeholder)
StepDefaulted(step, raw) ==
  /\ Has(step, "instruction")
  /\ IF ~Has(raw, "instruction") THEN step.instruction = "Do this step"
     ELSE step.instruction \in {raw.instruction} \cup
            (IF raw.instruction = "" THEN {"Do this step"} ELSE {})
  /\ step.resources = (IF Has(raw, "resources") THEN raw.resources ELSE <<>>)
  /\ Field(step, "subSteps") = <<>>
  /\ Field(step, "isExpanded") = FALSE

\* the raw item is flagged parallel and has the array of sub-entries
FlaggedParallel(item) ==
  Has(item, "type") /\ item.type = "parallel" /\ Has(item, "parallelSteps")

\* C26: the plan normalizer emits a parallel Group for a raw item flagged
\* parallel that has sub-entries and a single Step for every other raw item, and
\* every Step it emits, single or member of a group, has the placeholder
\* instruction when the raw instruction is missing, an empty resource list when
\* the raw resource array is missing, empty subSteps and isExpanded false.  (A
\* flagged item whose array of sub-entries is empty may be emitted either way.)
PlanNormalized ==
  (last.ev = "service" /\ last.kind = "plan" /\ ~last.outcome.threw) =>
    LET raw == JSONparse(last.response)
        plan == last.outcome.value
    IN /\ Len(plan) = Len(raw)
       /\ \A i \in 1..Len(raw) :
            /\ FlaggedParallel(raw[i]) /\ Len(raw[i].parallelSteps) > 0
                 => plan[i].type = "parallel"
            /\ ~FlaggedParallel(raw[i]) => plan[i].type = "single"
            /\ plan[i].type = "single" => StepDefaulted(plan[i].step, raw[i])
            /\ plan[i].type = "parallel" =>
                 /\ Len(plan[i].group.steps) = Len(raw[i].parallelSteps)
                 /\ \A p \in 1..Len(raw[i].parallelSteps) :
                      StepDefaulted(plan[i].group.steps[p], raw[i].parallelSteps[p])

\* C27: the strategies a successful strategy generation installs have an empty
\* plan and no plan-language, and a strategy has a non-empty plan after a step
\* only if it had one before it or the step is the successful completion of a
\* plan request issued for that strategy.
PlanOnlyFromOwnRequest ==
  /\ last'.ev = "strategiesDone" =>
       \A s \in 1..Len(state'.strategies) :
          /\ state'.strategies[s].plan = <<>>
          /\ ~Has(state'.strategies[s], "planLanguage")
  /\ \A s2 \in 1..Len(state'.strategies) :
       state'.strategies[s2].plan # <<>> =>
         \/ \E s \in 1..Len(state.strategies) :
              /\ state.strategies[s].id = state'.strategies[s2].id
              /\ state.strategies[s].plan # <<>>
         \/ /\ last'.ev = "planDone"
            /\ \E req \in Settled :
                 req.kind = "plan" /\ req.target = state'.strategies[s2].id

PlansComeFromOwnRequests == [][PlanOnlyFromOwnRequest]_vars

\* the plan of one of two strategies has just arrived; the other strategy is as
\* the generation installed it
OnePlanOfTwoArrived ==
  /\ last.ev = "planDone"
  /\ Len(state.strategies) = 2
  /\ \E s, o \in 1..2 :
       /\ state.strategies[s].id = last.id
       /\ state.strategies[s].plan # <<>>
       /\ state.strategies[o].id # last.id
       /\ state.strategies[o].plan = <<>>
       /\ ~Has(state.strategies[o], "planLanguage")


\* C28: whenever the stage is PROCESS, the selected strategy is in the
\* strategies list and its plan is not empty.
DetailHasPlan ==
  state.stage = "PROCESS" =>
    /\ ActiveIndex(state) # 0
    /\ Has(state.strategies[ActiveIndex(state)], "plan")
    /\ state.strategies[ActiveIndex(state)].plan # <<>>

\* C29: the top-level loading flag is true exactly when the stage is PROCESSING.
LoadingIffProcessing == state.loading <=> state.stage = "PROCESSING"


\* the acquisition requests in flight for a Resource
FetchesInFlight(resId) ==
  { req \in pending : req.kind = "resource" /\ req.target = resId }

\* C30: a Resource's loading flag is true exactly while an acquisition request
\* for that Resource is in flight.
ResourceLoadingIffFetching ==
  \A r \in 1..Len(state.resources) :
     Truthy(state.resources[r], "loading")
       <=> FetchesInFlight(state.resources[r].id) # {}


\* C31: a reset leaves no trace of the session before it: after a reset the
\* error is null, the top-level loading flag is false, and neither a strategy
\* nor a resource is selected.
ResetClears ==
  last'.ev = "reset" =>
    /\ state'.error = Null
    /\ ~state'.loading
    /\ state'.selectedStrategyId = Null
    /\ state'.selectedResourceId = Null

AfterResetNoTrace == [][ResetClears]_vars

====
